---- MODULE Spec2Model ----
(***************************************************************************)
(* Model of surfalize.abbottfirestone.AbbottFirestoneCurve: construction   *)
(* of the material-ratio curve from a height map, the equivalence-line     *)
(* search, and the derived functional parameters.                          *)
(*                                                                         *)
(* Floating-point values are modelled as exact rationals extended with the *)
(* IEEE specials +inf, -inf and NaN, so that the sentinel of the search    *)
(* and everything derived from it is computed as numpy computes it.        *)
(* Rounding error is not modelled.                                         *)
(***************************************************************************)
EXTENDS Integers, Sequences, FiniteSets, TLC

(***************************************************************************)
(* Bounds of the model.                                                    *)
(***************************************************************************)
\* largest number of samples of a height map
MaxLen == 3
\* sample values are drawn from 0..MaxHeight
MaxHeight == 2
\* nbins is drawn from -1..MaxBins
MaxBins == 3
\* a caller makes up to MaxCalls queries on one instance
MaxCalls == 2

(***************************************************************************)
(* Floating-point values: [k |-> "fin", n, d] is the rational n/d in       *)
(* lowest terms with d > 0; k = "pinf", "ninf", "nan" are the specials.    *)
(***************************************************************************)
RECURSIVE GCD(_, _)
GCD(a, b) ==
    IF b = 0 THEN a ELSE GCD(b, a % b)

IAbs(i) ==
    IF i < 0 THEN -i ELSE i

Fin(n, d) ==
    LET s == IF d < 0 THEN -1 ELSE 1
        g == GCD(IAbs(n), IAbs(d))
    IN  [k |-> "fin", n |-> (s * n) \div g, d |-> (s * d) \div g]

Int2F(i) ==
    [k |-> "fin", n |-> i, d |-> 1]

PInf ==
    [k |-> "pinf", n |-> 0, d |-> 1]

NInf ==
    [k |-> "ninf", n |-> 0, d |-> 1]

NaN ==
    [k |-> "nan", n |-> 0, d |-> 1]

\* the value of an attribute that has not been assigned yet
Unset ==
    [k |-> "unset", n |-> 0, d |-> 1]

IsFinite(a) ==
    a.k = "fin"

IsNaN(a) ==
    a.k = "nan"

\* sign of a non-NaN value: -1, 0 or 1
Sign(a) ==
    IF a.k = "pinf" THEN 1
    ELSE IF a.k = "ninf" THEN -1
    ELSE IF a.n > 0 THEN 1
    ELSE IF a.n < 0 THEN -1
    ELSE 0

FNeg(a) ==
    IF a.k = "fin" THEN [k |-> "fin", n |-> -a.n, d |-> a.d]
    ELSE IF a.k = "pinf" THEN NInf
    ELSE IF a.k = "ninf" THEN PInf
    ELSE a

FAbs(a) ==
    IF a.k = "fin" THEN [k |-> "fin", n |-> IAbs(a.n), d |-> a.d]
    ELSE IF a.k = "ninf" THEN PInf
    ELSE a

FAdd(a, b) ==
    IF IsNaN(a) \/ IsNaN(b) THEN NaN
    ELSE IF IsFinite(a) /\ IsFinite(b) THEN Fin(a.n * b.d + b.n * a.d, a.d * b.d)
    ELSE IF IsFinite(a) THEN b
    ELSE IF IsFinite(b) THEN a
    ELSE IF a.k = b.k THEN a
    ELSE NaN

FSub(a, b) ==
    FAdd(a, FNeg(b))

FMul(a, b) ==
    IF IsNaN(a) \/ IsNaN(b) THEN NaN
    ELSE IF IsFinite(a) /\ IsFinite(b) THEN Fin(a.n * b.n, a.d * b.d)
    ELSE IF Sign(a) * Sign(b) = 0 THEN NaN
    ELSE IF Sign(a) * Sign(b) > 0 THEN PInf
    ELSE NInf

\* numpy division: a zero divisor gives inf or NaN (with a warning), never an exception
FDiv(a, b) ==
    IF IsNaN(a) \/ IsNaN(b) THEN NaN
    ELSE IF IsFinite(a) /\ IsFinite(b)
    THEN IF b.n # 0 THEN Fin(a.n * b.d, a.d * b.n)
         ELSE IF a.n = 0 THEN NaN
         ELSE IF a.n > 0 THEN PInf
         ELSE NInf
    ELSE IF IsFinite(a) THEN Int2F(0)
    ELSE IF ~IsFinite(b) THEN NaN
    ELSE IF Sign(a) * (IF Sign(b) < 0 THEN -1 ELSE 1) > 0 THEN PInf
    ELSE NInf

\* position of a non-NaN value among -inf < finite < +inf
Ord(a) ==
    IF a.k = "pinf" THEN 1 ELSE IF a.k = "ninf" THEN -1 ELSE 0

\* comparisons: every comparison with NaN is false
FLt(a, b) ==
    IF IsNaN(a) \/ IsNaN(b) THEN FALSE
    ELSE IF IsFinite(a) /\ IsFinite(b) THEN a.n * b.d < b.n * a.d
    ELSE Ord(a) < Ord(b)

FEq(a, b) ==
    ~IsNaN(a) /\ ~IsNaN(b) /\ a = b

FGt(a, b) ==
    FLt(b, a)

FLe(a, b) ==
    FLt(a, b) \/ FEq(a, b)

FGe(a, b) ==
    FLe(b, a)

(***************************************************************************)
(* Helpers on sequences.                                                   *)
(***************************************************************************)
Reverse(s) ==
    [i \in 1..Len(s) |-> s[Len(s) + 1 - i]]

SeqMin(s) ==
    CHOOSE m \in {s[i] : i \in 1..Len(s)} : \A i \in 1..Len(s) : m <= s[i]

SeqMax(s) ==
    CHOOSE m \in {s[i] : i \in 1..Len(s)} : \A i \in 1..Len(s) : m >= s[i]

\* s[0:n] and s[n:] of a Python sequence (n is a 0-based index)
Take(s, n) ==
    SubSeq(s, 1, n)

Drop(s, n) ==
    SubSeq(s, n + 1, Len(s))

(***************************************************************************)
(* numpy.histogram(data, bins=nbins): nbins equal-width bins over          *)
(* [min, max]; when min = max the range is widened to [min-0.5, max+0.5].  *)
(* Every bin is half-open on the right except the last, which is closed.   *)
(* Edges are kept doubled (lo2, hi2) so that they stay integers.           *)
(***************************************************************************)
lo2(d) ==
    IF SeqMin(d) = SeqMax(d) THEN 2 * SeqMin(d) - 1 ELSE 2 * SeqMin(d)

hi2(d) ==
    IF SeqMin(d) = SeqMax(d) THEN 2 * SeqMax(d) + 1 ELSE 2 * SeqMax(d)

\* 0-based index of the bin that sample x falls in
bin_index(d, nb, x) ==
    IF 2 * x = hi2(d) THEN nb - 1
    ELSE ((2 * x - lo2(d)) * nb) \div (hi2(d) - lo2(d))

\* the nb counts
histogram_counts(d, nb) ==
    [b \in 1..nb |-> Cardinality({i \in 1..Len(d) : bin_index(d, nb, d[i]) = b - 1})]

\* the nb+1 bin edges, ascending
histogram_edges(d, nb) ==
    [e \in 1..(nb + 1) |-> Fin(lo2(d) * nb + (e - 1) * (hi2(d) - lo2(d)), 2 * nb)]

\* np.cumsum(s)[i-1]
RECURSIVE cumsum(_, _)
cumsum(s, i) ==
    IF i = 0 THEN 0 ELSE s[i] + cumsum(s, i - 1)

(***************************************************************************)
(* AbbottFirestoneCurve._get_material_ratio_curve                          *)
(***************************************************************************)
\* the bin edges left in ascending order (the reversal forgotten)
curve_height_ascending(d, nb) ==
    histogram_edges(d, nb)

\* height = height[::-1]
curve_height(d, nb) ==
    Reverse(histogram_edges(d, nb))

\* the cumulative ratios alone, without the element put in front of them
curve_material_ratio_bare(d, nb) ==
    LET hist == Reverse(histogram_counts(d, nb))
        total == cumsum(hist, nb)
    IN  [i \in 1..nb |-> FMul(FDiv(Int2F(cumsum(hist, i)), Int2F(total)), Int2F(100))]

\* material_ratio = np.concatenate(([100], np.cumsum(hist) / hist.sum() * 100))
curve_material_ratio(d, nb) ==
    LET hist == Reverse(histogram_counts(d, nb))
        total == cumsum(hist, nb)
    IN  <<Int2F(100)>> \o
        [i \in 1..nb |-> FMul(FDiv(Int2F(cumsum(hist, i)), Int2F(total)), Int2F(100))]

get_material_ratio_curve(d, nb) ==
    [height |-> curve_height(d, nb), material_ratio |-> curve_material_ratio(d, nb)]

(***************************************************************************)
(* surfalize.mathutils (interp1d, argclosest, trapezoid).                  *)
(***************************************************************************)
\* 1-based position of point i when the points are ordered by x, ties by index
sort_rank(xs, i) ==
    1 + Cardinality({j \in 1..Len(xs) : FLt(xs[j], xs[i]) \/ (xs[j] = xs[i] /\ j < i)})

\* index of the point at position r of that order
sort_index(xs, r) ==
    CHOOSE i \in 1..Len(xs) : sort_rank(xs, i) = r

\* interp1d(xdata, ydata)(x): piecewise-linear interpolation through the points
\* ordered by x, clamped to the end values outside their range; NaN stays NaN
interp1d(xdata, ydata, x) ==
    LET n  == Len(xdata)
        xp == [r \in 1..n |-> xdata[sort_index(xdata, r)]]
        fp == [r \in 1..n |-> ydata[sort_index(xdata, r)]]
    IN  IF IsNaN(x) THEN NaN
        ELSE IF FGt(x, xp[n]) THEN fp[n]
        ELSE IF FLt(x, xp[1]) THEN fp[1]
        ELSE LET j == CHOOSE r \in 1..n :
                        /\ FLe(xp[r], x)
                        /\ \A q \in (r + 1)..n : FLt(x, xp[q])
             IN  IF j = n \/ xp[j] = x THEN fp[j]
                 ELSE FAdd(fp[j],
                           FMul(FDiv(FSub(fp[j + 1], fp[j]), FSub(xp[j + 1], xp[j])),
                                FSub(x, xp[j])))

\* argclosest(value, array): 0-based index of the element nearest value, the
\* first one on ties (argmin of |array - value|; a NaN distance wins the argmin)
argclosest(value, array) ==
    LET dist == [i \in 1..Len(array) |-> FAbs(FSub(array[i], value))]
    IN  IF \E i \in 1..Len(array) : IsNaN(dist[i])
        THEN (CHOOSE i \in 1..Len(array) :
                 IsNaN(dist[i]) /\ \A j \in 1..(i - 1) : ~IsNaN(dist[j])) - 1
        ELSE (CHOOSE i \in 1..Len(array) :
                 /\ \A j \in 1..Len(array) : FLe(dist[i], dist[j])
                 /\ \A j \in 1..(i - 1) : FLt(dist[i], dist[j])) - 1

\* sum over the first m intervals of (x[i+1] - x[i]) * (y[i] + y[i+1]) / 2
RECURSIVE trapezoid_sum(_, _, _)
trapezoid_sum(y, x, m) ==
    IF m <= 0 THEN Int2F(0)
    ELSE FAdd(trapezoid_sum(y, x, m - 1),
              FDiv(FMul(FSub(x[m + 1], x[m]), FAdd(y[m], y[m + 1])), Int2F(2)))

\* trapezoid(y, x): composite trapezoid rule over the points in the given order
trapezoid(y, x) ==
    trapezoid_sum(y, x, Len(y) - 1)

(***************************************************************************)
(* AbbottFirestoneCurve._calculate_equivalence_line                        *)
(***************************************************************************)
EQUIVALENCE_LINE_WIDTH == 40

\* the for loop from index istart (0-based) on; best is the running
\* [max_slope, istart_final, evaluated], evaluated being the indices whose
\* slope was computed
RECURSIVE equivalence_loop(_, _, _, _)
equivalence_loop(mr, h, istart, best) ==
    IF istart >= Len(mr) THEN best
    ELSE IF FGt(mr[istart + 1], Int2F(100 - EQUIVALENCE_LINE_WIDTH)) THEN best
    ELSE LET mr_shifted == FAdd(mr[istart + 1], Int2F(EQUIVALENCE_LINE_WIDTH))
         IN  IF FGt(mr_shifted, Int2F(100))
             THEN equivalence_loop(mr, h, istart + 1, best)
             ELSE LET s == FDiv(FSub(interp1d(mr, h, mr_shifted), h[istart + 1]),
                                Int2F(EQUIVALENCE_LINE_WIDTH))
                      seen == best.evaluated \cup {istart}
                  IN  IF FGt(s, best.max_slope)
                      THEN equivalence_loop(mr, h, istart + 1,
                               [max_slope |-> s, istart_final |-> istart, evaluated |-> seen])
                      ELSE equivalence_loop(mr, h, istart + 1,
                               [best EXCEPT !.evaluated = seen])

equivalence_search(mr, h) ==
    equivalence_loop(mr, h, 0, [max_slope |-> NInf, istart_final |-> 0, evaluated |-> {}])

calculate_equivalence_line(mr, h) ==
    LET found     == equivalence_search(mr, h)
        max_slope == found.max_slope
        i         == found.istart_final + 1
        icept     == FSub(h[i], FMul(max_slope, mr[i]))
    IN  [slope     |-> max_slope,
         intercept |-> icept,
         y_upper   |-> icept,
         y_lower   |-> FAdd(FMul(max_slope, Int2F(100)), icept)]

(***************************************************************************)
(* State.                                                                  *)
(***************************************************************************)
VARIABLES
    data,            \* surface.data, flattened: the samples of the height map
    nbins,           \* self.nbins
    pc,              \* "new" before __init__ has run, "built" after, "raised" if it raised
    height,          \* self.height
    material_ratio,  \* self.material_ratio
    slope,           \* self.slope
    intercept,       \* self.intercept
    y_upper,         \* self.y_upper
    y_lower,         \* self.y_lower
    last,            \* the last query and the value it returned
    cache,           \* the instance's memo: key of a call |-> the value stored for it
    evals,           \* key of a call |-> how often the body of the method has run for it
    hits,            \* key of a call |-> how often the call was answered from the cache
    calls_left,      \* how many more calls the caller makes
    surfaces,        \* the Surface objects that exist: surfaces[id] = [data, step_x, step_y]
    returned,        \* the id of the object the last filter call returned, 0 before any call
    call,            \* the last filter call: [filter, via, inplace, input]
    gw_pc,           \* GreenwoodWilliamsonModel: "new" before __init__, then "built" or "raised"
    gw_args,         \* the arguments of __init__: [surface, asperity_radius, asperity_density]
    gw_attrs,        \* the attributes assigned to the instance so far: name |-> value
    gw_last,         \* the last query of the model and what it returned
    bandpass,        \* the BandpassFilter a caller constructs: [pc, args, low_cutoff, high_cutoff]
    acf,             \* the AutocorrelationFunction under query and its last query
    profile,         \* the Profile under call and its last call
    image            \* the Image under call and its last call

curve == <<height, material_ratio, slope, intercept, y_upper, y_lower>>

afVars == <<data, nbins, pc, curve, last, cache, evals, hits>>

flVars == <<surfaces, returned, call>>

gwVars == <<gw_pc, gw_args, gw_attrs, gw_last>>

extVars == <<bandpass, acf, profile, image>>

vars == <<afVars, flVars, gwVars, extVars, calls_left>>

(***************************************************************************)
(* Queries of a constructed curve: the value each method body computes.    *)
(* A body that calls another cached method takes that call's value as a    *)
(* parameter (x_given); the operator of the method's own name is the value *)
(* computed with nothing cached.                                           *)
(***************************************************************************)
Sk ==
    FSub(y_upper, y_lower)

\* Smr with the two arguments of interp1d exchanged
Smr_exchanged(c) ==
    interp1d(material_ratio, height, c)

Smr(c) ==
    interp1d(height, material_ratio, c)

Smc(mr) ==
    interp1d(material_ratio, height, mr)

Smr1 ==
    Smr(y_upper)

Smr2 ==
    Smr(y_lower)

\* 100 - material_ratio[idx:]
void_ratio(idx) ==
    [i \in 1..(Len(material_ratio) - idx) |-> FSub(Int2F(100), material_ratio[idx + i])]

\* trapezoid(self.material_ratio[:idx], self.height[:idx])
material_area(idx) ==
    trapezoid(Take(material_ratio, idx), Take(height, idx))

\* trapezoid(100 - self.material_ratio[idx:], self.height[idx:])
void_area(idx) ==
    trapezoid(void_ratio(idx), Drop(height, idx))

Spk_given(smr1) ==
    LET idx  == argclosest(y_upper, height)
        area == trapezoid(Take(material_ratio, idx), Take(height, idx))
    IN  FDiv(FMul(Int2F(2), FAbs(area)), smr1)

Spk ==
    Spk_given(Smr1)

Svk_given(smr2) ==
    LET idx  == argclosest(y_lower, height)
        area == trapezoid(void_ratio(idx), Drop(height, idx))
    IN  FDiv(FMul(Int2F(2), FAbs(area)), FSub(Int2F(100), smr2))

Svk ==
    Svk_given(Smr2)

Vmp(p) ==
    LET c   == Smc(p)
        idx == argclosest(c, height)
    IN  FAbs(FDiv(material_area(idx), Int2F(100)))

Vmc_given(p, q, vmp) ==
    FSub(FDiv(FAbs(material_area(argclosest(Smc(q), height))), Int2F(100)), vmp)

Vmc(p, q) ==
    Vmc_given(p, q, Vmp(p))

Vvv(q) ==
    LET idx == argclosest(Smc(q), height)
    IN  FDiv(FAbs(void_area(idx)), Int2F(100))

Vvc_given(p, q, vvv) ==
    LET idx == argclosest(Smc(p), height)
    IN  FSub(FDiv(FAbs(void_area(idx)), Int2F(100)), vvv)

Vvc(p, q) ==
    Vvc_given(p, q, Vvv(q))

(***************************************************************************)
(* surfalize.cache: the @cache decorator of a CachedInstance. A call is    *)
(* looked up under its key (method name, arguments); on a miss the body    *)
(* runs once and its value is stored. m = [cache, evals, hits] is the memo  *)
(* that a call reads and hands on; a call yields [val, m].                 *)
(***************************************************************************)
Key(name, args) ==
    <<name, args>>

\* one more for key k in the counts e
Count(e, k) ==
    IF k \in DOMAIN e THEN [e EXCEPT ![k] = @ + 1] ELSE (k :> 1) @@ e

\* r is what the body yields when it runs on the memo m
Memoized(m, k, r) ==
    IF k \in DOMAIN m.cache
    THEN [val |-> m.cache[k], m |-> [m EXCEPT !.hits = Count(@, k)]]
    ELSE [val |-> r.val,
          m   |-> [cache |-> (k :> r.val) @@ r.m.cache,
                   evals |-> Count(r.m.evals, k),
                   hits  |-> r.m.hits]]

(***************************************************************************)
(* The cached methods: body and decorated call.                            *)
(***************************************************************************)
SkCall(m) ==
    Memoized(m, Key("Sk", <<>>), [val |-> Sk, m |-> m])

Smr1Call(m) ==
    Memoized(m, Key("Smr1", <<>>), [val |-> Smr1, m |-> m])

Smr2Call(m) ==
    Memoized(m, Key("Smr2", <<>>), [val |-> Smr2, m |-> m])

\* the body calls self.Smr1()
SpkBody(m) ==
    LET r == Smr1Call(m)
    IN  [val |-> Spk_given(r.val), m |-> r.m]

SpkCall(m) ==
    Memoized(m, Key("Spk", <<>>), SpkBody(m))

\* the body calls self.Smr2()
SvkBody(m) ==
    LET r == Smr2Call(m)
    IN  [val |-> Svk_given(r.val), m |-> r.m]

SvkCall(m) ==
    Memoized(m, Key("Svk", <<>>), SvkBody(m))

VmpBody(m, p) ==
    [val |-> Vmp(p), m |-> m]

\* Vmp stored under the method name alone, whatever the argument
VmpCall_keyed_by_name(m, p) ==
    Memoized(m, Key("Vmp", <<>>), VmpBody(m, p))

VmpCall(m, p) ==
    Memoized(m, Key("Vmp", <<p>>), VmpBody(m, p))

\* the body calls self.Vmp(p)
VmcBody(m, p, q) ==
    LET r == VmpCall(m, p)
    IN  [val |-> Vmc_given(p, q, r.val), m |-> r.m]

\* Vmc stored under q and the default p = 10, whatever p is
VmcCall_keyed_without_p(m, p, q) ==
    Memoized(m, Key("Vmc", <<Int2F(10), q>>), VmcBody(m, p, q))

VmcCall(m, p, q) ==
    Memoized(m, Key("Vmc", <<p, q>>), VmcBody(m, p, q))

VvvCall(m, q) ==
    Memoized(m, Key("Vvv", <<q>>), [val |-> Vvv(q), m |-> m])

\* the body calls self.Vvv(q)
VvcBody(m, p, q) ==
    LET r == VvvCall(m, q)
    IN  [val |-> Vvc_given(p, q, r.val), m |-> r.m]

VvcCall(m, p, q) ==
    Memoized(m, Key("Vvc", <<p, q>>), VvcBody(m, p, q))

(***************************************************************************)
(* Inputs.                                                                 *)
(***************************************************************************)
\* the height maps: 1 to MaxLen samples, each in 0..MaxHeight. The curve is built
\* from the histogram of the samples alone, which does not depend on their
\* order, so each multiset of samples is listed once, in non-decreasing order.
HeightMaps ==
    {d \in UNION {[1..n -> 0..MaxHeight] : n \in 1..MaxLen} :
        \A i \in 1..(Len(d) - 1) : d[i] <= d[i + 1]}

\* the values of nbins a caller passes: the valid ones and two below 1
BinCounts ==
    (0 - 1)..MaxBins

\* heights a caller asks Smr about: the curve's samples, the midpoints between
\* neighbouring samples, and one height beyond each end of the curve
QueryHeights ==
    {height[i] : i \in 1..Len(height)}
        \cup {FDiv(FAdd(height[i], height[i + 1]), Int2F(2)) : i \in 1..(Len(height) - 1)}
        \cup {FAdd(height[1], Int2F(1)), FSub(height[Len(height)], Int2F(1))}

\* material ratios a caller asks Smc about: the curve's samples and the default
\* arguments p = 10 and q = 80 of the volume parameters
QueryRatios ==
    {material_ratio[i] : i \in 1..Len(material_ratio)} \cup {Int2F(10), Int2F(80)}

\* arguments p and q a caller passes to the volume parameters: the defaults
\* p = 10, q = 80 and the median p = 50
PArgs ==
    {Int2F(10), Int2F(50)}

QArgs ==
    {Int2F(80)}

(***************************************************************************)
(* Actions.                                                                *)
(***************************************************************************)
NoCall ==
    [op |-> "none", arg |-> Unset, val |-> Unset]

\* the ValueError that np.histogram raises for bins < 1
ValueError ==
    [k |-> "ValueError", n |-> 0, d |-> 1]

NoMemo ==
    <<>>

\* the attributes of an instance whose __init__ has not run
AfNew ==
    /\ pc = "new"
    /\ height = <<>>
    /\ material_ratio = <<>>
    /\ slope = Unset
    /\ intercept = Unset
    /\ y_upper = Unset
    /\ y_lower = Unset
    /\ last = NoCall
    /\ cache = NoMemo
    /\ evals = NoMemo
    /\ hits = NoMemo

NoFilterCall ==
    [filter |-> [class |-> "none"]]

\* no filter has been called and no Surface is under a filter
FlIdle ==
    /\ surfaces = <<>>
    /\ returned = 0
    /\ call = NoFilterCall

\* no Greenwood-Williamson model is under construction
GwIdle ==
    /\ gw_pc = "idle"
    /\ gw_args = <<>>
    /\ gw_attrs = <<>>
    /\ gw_last = NoCall

\* no other object is under construction or call
Idle ==
    [pc |-> "idle"]

ExtIdle ==
    /\ bandpass = Idle
    /\ acf = Idle
    /\ profile = Idle
    /\ image = Idle

\* one query per instance
Init ==
    /\ data \in HeightMaps
    /\ nbins \in BinCounts
    /\ AfNew
    /\ calls_left = 1
    /\ FlIdle
    /\ GwIdle
    /\ ExtIdle

\* np.histogram(data, bins=nbins) raises ValueError when nbins < 1
histogram_raises(nb) ==
    nb < 1

\* AbbottFirestoneCurve.__init__, nbins >= 1
Construct ==
    /\ pc = "new"
    /\ ~histogram_raises(nbins)
    /\ LET c == get_material_ratio_curve(data, nbins)
           e == calculate_equivalence_line(c.material_ratio, c.height)
       IN  /\ height' = c.height
           /\ material_ratio' = c.material_ratio
           /\ slope' = e.slope
           /\ intercept' = e.intercept
           /\ y_upper' = e.y_upper
           /\ y_lower' = e.y_lower
           /\ cache' = (Key("_get_material_ratio_curve", <<>>) :> c)
                           @@ (Key("_calculate_equivalence_line", <<>>) :> e)
           /\ evals' = (Key("_get_material_ratio_curve", <<>>) :> 1)
                           @@ (Key("_calculate_equivalence_line", <<>>) :> 1)
           /\ hits' = NoMemo
    /\ pc' = "built"
    /\ UNCHANGED <<data, nbins, last, calls_left, flVars, gwVars, extVars>>

\* the exception leaves __init__ and the caller gets no instance
ConstructRaises_swallowed ==
    /\ pc = "new"
    /\ histogram_raises(nbins)
    /\ pc' = "built"
    /\ last' = [op |-> "__init__", arg |-> Unset, val |-> ValueError]
    /\ UNCHANGED <<data, nbins, curve, cache, evals, hits, calls_left, flVars, gwVars, extVars>>

\* AbbottFirestoneCurve.__init__, nbins < 1: np.histogram raises in
\* _get_material_ratio_curve, before any attribute of the curve is assigned
ConstructRaises ==
    /\ pc = "new"
    /\ histogram_raises(nbins)
    /\ pc' = "raised"
    /\ last' = [op |-> "__init__", arg |-> Unset, val |-> ValueError]
    /\ UNCHANGED <<data, nbins, curve, cache, evals, hits, calls_left, flVars, gwVars, extVars>>

\* a query that assigns an attribute of the curve on its way
Return_assigning(op, arg, val) ==
    /\ pc = "built"
    /\ calls_left > 0
    /\ calls_left' = calls_left - 1
    /\ last' = [op |-> op, arg |-> arg, val |-> val]
    /\ y_upper' = val
    /\ UNCHANGED <<data, nbins, pc, height, material_ratio, slope, intercept, y_lower,
                   cache, evals, hits, flVars, gwVars, extVars>>

\* a query without the decorator returns val; it assigns no attribute of the curve
Return(op, arg, val) ==
    /\ pc = "built"
    /\ calls_left > 0
    /\ calls_left' = calls_left - 1
    /\ last' = [op |-> op, arg |-> arg, val |-> val]
    /\ UNCHANGED <<data, nbins, pc, curve, cache, evals, hits, flVars, gwVars, extVars>>

\* a decorated query returns r.val and leaves the memo r.m
ReturnCached(op, arg, r) ==
    /\ pc = "built"
    /\ calls_left > 0
    /\ calls_left' = calls_left - 1
    /\ last' = [op |-> op, arg |-> arg, val |-> r.val]
    /\ cache' = r.m.cache
    /\ evals' = r.m.evals
    /\ hits' = r.m.hits
    /\ UNCHANGED <<data, nbins, pc, curve, flVars, gwVars, extVars>>

\* the memo as the instance holds it
Memo ==
    [cache |-> cache, evals |-> evals, hits |-> hits]

CallSk ==
    /\ pc = "built"
    /\ ReturnCached("Sk", <<>>, SkCall(Memo))

CallSmr ==
    /\ pc = "built"
    /\ \E c \in QueryHeights : Return("Smr", c, Smr(c))

CallSmc ==
    /\ pc = "built"
    /\ \E mr \in QueryRatios : Return("Smc", mr, Smc(mr))

CallSmr1 ==
    /\ pc = "built"
    /\ ReturnCached("Smr1", <<>>, Smr1Call(Memo))

CallSmr2 ==
    /\ pc = "built"
    /\ ReturnCached("Smr2", <<>>, Smr2Call(Memo))

CallSpk ==
    /\ pc = "built"
    /\ ReturnCached("Spk", <<>>, SpkCall(Memo))

CallSvk ==
    /\ pc = "built"
    /\ ReturnCached("Svk", <<>>, SvkCall(Memo))

CallVmp ==
    /\ pc = "built"
    /\ \E p \in PArgs : ReturnCached("Vmp", <<p>>, VmpCall(Memo, p))

CallVmc ==
    /\ pc = "built"
    /\ \E p \in PArgs, q \in QArgs : ReturnCached("Vmc", <<p, q>>, VmcCall(Memo, p, q))

CallVvv ==
    /\ pc = "built"
    /\ \E q \in QArgs : ReturnCached("Vvv", <<q>>, VvvCall(Memo, q))

CallVvc ==
    /\ pc = "built"
    /\ \E p \in PArgs, q \in QArgs : ReturnCached("Vvc", <<p, q>>, VvcCall(Memo, p, q))

Next ==
    \/ Construct
    \/ ConstructRaises
    \/ CallSk
    \/ CallSmr
    \/ CallSmc
    \/ CallSmr1
    \/ CallSmr2
    \/ CallSpk
    \/ CallSvk
    \/ CallVmp
    \/ CallVmc
    \/ CallVvv
    \/ CallVvc

Spec ==
    Init /\ [][Next]_vars

\* a caller that makes MaxCalls queries, one after the other, on one instance
\* built from a map of two distinct samples, with the most bins or none
InitMemo ==
    /\ data \in {d \in HeightMaps : Len(d) = 2 /\ d[1] # d[2]}
    /\ nbins \in {0, MaxBins}
    /\ AfNew
    /\ calls_left = MaxCalls
    /\ FlIdle
    /\ GwIdle
    /\ ExtIdle

SpecMemo ==
    InitMemo /\ [][Next]_vars

(***************************************************************************)
(* Filters (filter.py). A height map is a matrix: a sequence of rows of     *)
(* floating-point values. The maps under a filter are 2 x 2, for which the  *)
(* discrete Fourier transform has the roots 1 and -1 only and is rational.  *)
(***************************************************************************)
\* a - b, element by element
mat_sub(a, b) ==
    [r \in DOMAIN a |-> [c \in DOMAIN a[r] |-> FSub(a[r][c], b[r][c])]]

\* scipy.ndimage: the index read for position i of an axis of n samples; a
\* position outside 1..n is mapped by the mode, 0 stands for the constant 0
extend_index(i, n, mode) ==
    IF i \in 1..n
    THEN i
    ELSE CASE mode = "reflect"  -> IF i < 1 THEN 1 - i ELSE 2 * n + 1 - i
           [] mode = "mirror"   -> IF i < 1 THEN 2 - i ELSE 2 * n - i
           [] mode = "nearest"  -> IF i < 1 THEN 1 ELSE n
           [] mode = "wrap"     -> IF i < 1 THEN i + n ELSE i - n
           [] mode = "constant" -> 0

\* the sample at row r, column c of the map d extended by the mode
sample(d, r, c, mode) ==
    LET rr == extend_index(r, Len(d), mode)
        cc == extend_index(c, Len(d[1]), mode)
    IN  IF rr = 0 \/ cc = 0 THEN Int2F(0) ELSE d[rr][cc]

\* GaussianFilter.sigma: cutoff / pi * sqrt(ln(2) / 2); the irrational factor
\* 0.18739... is rounded to 3/16
sigma(cutoff) ==
    FMul(cutoff, Fin(3, 16))

\* the weight of a neighbour at distance 1 relative to the centre. scipy uses
\* exp(-1 / (2 sg^2)); the rational 2 sg^2 / (2 sg^2 + 1) stands for it: it
\* is 0 for no smoothing, grows with sg and stays below 1
gauss_weight(sg) ==
    LET t == FMul(Int2F(2), FMul(sg, sg))
    IN  FDiv(t, FAdd(t, Int2F(1)))

\* one pass of the normalised three-point kernel along an axis (0: down the
\* rows, 1: along the columns)
gaussian_filter1d(d, sg, axis, mode) ==
    LET w == gauss_weight(sg)
        before(r, c) == IF axis = 0 THEN sample(d, r - 1, c, mode) ELSE sample(d, r, c - 1, mode)
        after(r, c)  == IF axis = 0 THEN sample(d, r + 1, c, mode) ELSE sample(d, r, c + 1, mode)
    IN  [r \in DOMAIN d |-> [c \in DOMAIN d[r] |->
            FDiv(FAdd(FAdd(FMul(w, before(r, c)), d[r][c]), FMul(w, after(r, c))),
                 FAdd(Int2F(1), FMul(Int2F(2), w)))]]

\* scipy.ndimage.gaussian_filter(d, (sg[1], sg[2]), mode): sg[1] smooths axis 0,
\* sg[2] smooths axis 1
gaussian_filter(d, sg, mode) ==
    gaussian_filter1d(gaussian_filter1d(d, sg[1], 0, mode), sg[2], 1, mode)

\* scipy.ndimage.median_filter(d, size, mode): the median of the window of
\* size[1] x size[2] samples around each sample, for odd sizes
median_filter(d, size, mode) ==
    [r \in DOMAIN d |-> [c \in DOMAIN d[r] |->
        LET hr     == (size[1] - 1) \div 2
            hc     == (size[2] - 1) \div 2
            window == [p \in ((0 - hr)..hr) \X ((0 - hc)..hc) |->
                          sample(d, r + p[1], c + p[2], mode)]
            half   == Cardinality(DOMAIN window) \div 2
        IN  CHOOSE v \in {window[p] : p \in DOMAIN window} :
                /\ Cardinality({p \in DOMAIN window : FLt(window[p], v)}) <= half
                /\ Cardinality({p \in DOMAIN window : FLe(window[p], v)}) > half]]

\* scipy.fft.fft2 of a 2 x 2 map: the term of sample (i, j) in coefficient
\* (u, v) has the sign (-1)^(u i + v j), indices counted from 0
fft2(d) ==
    LET term(u, v, i, j) ==
            IF ((u - 1) * (i - 1) + (v - 1) * (j - 1)) % 2 = 0 THEN d[i][j] ELSE FNeg(d[i][j])
    IN  [u \in 1..2 |-> [v \in 1..2 |->
            FAdd(FAdd(term(u, v, 1, 1), term(u, v, 1, 2)),
                 FAdd(term(u, v, 2, 1), term(u, v, 2, 2)))]]

\* scipy.fft.ifft2 of a 2 x 2 map; the result is real
ifft2(d) ==
    [u \in 1..2 |-> [v \in 1..2 |-> FDiv(fft2(d)[u][v], Int2F(4))]]

\* scipy.fft.fftshift and ifftshift of a 2 x 2 map: both halves of each axis
\* change places
fftshift(d) ==
    [r \in 1..2 |-> [c \in 1..2 |-> d[3 - r][3 - c]]]

\* np.linspace(-0.5, 0.5, n, endpoint=False)[k], k counted from 1
frequency(k, n) ==
    Fin(2 * (k - 1) - n, 2 * n)

\* BandpassFilter.apply: the mask R >= 1/step_x/high_cutoff and
\* R <= 1/step_x/low_cutoff at row r, column c, compared by the squares
bandpass_mask(f, surf, r, c) ==
    LET nx == Len(surf.data)
        ny == Len(surf.data[1])
        X  == frequency(c, nx)
        Y  == frequency(r, ny)
        R2 == FAdd(FMul(X, X), FMul(Y, Y))
        lo == FDiv(FDiv(Int2F(1), surf.step_x), f.high_cutoff)
        hi == FDiv(FDiv(Int2F(1), surf.step_x), f.low_cutoff)
    IN  FGe(R2, FMul(lo, lo)) /\ FLe(R2, FMul(hi, hi))

\* GaussianFilter.apply: the filtered data. sigma_x is computed and not used:
\* both axes are smoothed with sigma_y
GaussianFilter_data_unsubtracted(f, surf) ==
    LET cutoff_y_px == FDiv(f.cutoff, surf.step_y)
        sigma_y     == sigma(cutoff_y_px)
    IN  gaussian_filter(surf.data, <<sigma_y, sigma_y>>, f.endeffect_mode)

GaussianFilter_data(f, surf) ==
    LET cutoff_x_px == FDiv(f.cutoff, surf.step_x)
        cutoff_y_px == FDiv(f.cutoff, surf.step_y)
        sigma_x     == sigma(cutoff_x_px)
        sigma_y     == sigma(cutoff_y_px)
        lowpass     == gaussian_filter(surf.data, <<sigma_y, sigma_y>>, f.endeffect_mode)
    IN  IF f.filter_type = "highpass" THEN mat_sub(surf.data, lowpass) ELSE lowpass

\* BandpassFilter.apply: the filtered data
BandpassFilter_data(f, surf) ==
    LET fft_surface == fftshift(fft2(surf.data))
        masked      == [r \in 1..2 |-> [c \in 1..2 |->
                           IF bandpass_mask(f, surf, r, c) THEN fft_surface[r][c] ELSE Int2F(0)]]
    IN  ifft2(fftshift(masked))

\* MedianFilter.apply: the filtered data
MedianFilter_data(f, surf) ==
    median_filter(surf.data, f.size, f.endeffect_mode)

\* Surface(data, step_x, step_y)
Surface(d, step_x, step_y) ==
    [data |-> d, step_x |-> step_x, step_y |-> step_y]

\* Surface._set_data(data=d) on the object s
set_data(s, d) ==
    [surfaces EXCEPT ![s].data = d]

(***************************************************************************)
(* Filter inputs.                                                          *)
(***************************************************************************)
\* 2 x 2 height maps with samples 0 and MaxHeight
SurfaceMaps ==
    [1..2 -> [1..2 -> {Int2F(0), Int2F(MaxHeight)}]]

\* pixel steps
Steps ==
    {Int2F(1), Int2F(2)}

Modes ==
    {"reflect", "constant"}

GaussianFilters ==
    [class : {"GaussianFilter"}, cutoff : {Int2F(2), Int2F(8)},
     filter_type : {"lowpass", "highpass"}, endeffect_mode : Modes]

\* low_cutoff < high_cutoff, both positive: the band keeps the three
\* frequencies other than 0, or none
BandpassFilters ==
    [class : {"BandpassFilter"}, low_cutoff : {Int2F(1), Int2F(3)},
     high_cutoff : {Int2F(4)}, endeffect_mode : {"reflect"}]

\* size = 1 and the default size = 3, as the pairs __init__ stores
MedianFilters ==
    [class : {"MedianFilter"}, size : {<<1, 1>>, <<3, 3>>}, endeffect_mode : Modes]

(***************************************************************************)
(* Filter actions.                                                         *)
(***************************************************************************)
\* the data reaches the input surface whatever inplace is
Deliver_aliasing(f, via, s, inplace, d) ==
    /\ calls_left > 0
    /\ calls_left' = calls_left - 1
    /\ call' = [filter |-> f, via |-> via, inplace |-> inplace, input |-> s]
    /\ IF inplace
       THEN /\ surfaces' = set_data(s, d)
            /\ returned' = s
       ELSE /\ surfaces' = Append(set_data(s, d), Surface(d, surfaces[s].step_x, surfaces[s].step_y))
            /\ returned' = Len(surfaces) + 1
    /\ UNCHANGED <<afVars, gwVars, extVars>>

\* the end of the three apply methods: with inplace the input surface takes
\* the data and is returned, otherwise a new Surface is made and returned
Deliver(f, via, s, inplace, d) ==
    /\ calls_left > 0
    /\ calls_left' = calls_left - 1
    /\ call' = [filter |-> f, via |-> via, inplace |-> inplace, input |-> s]
    /\ IF inplace
       THEN /\ surfaces' = set_data(s, d)
            /\ returned' = s
       ELSE /\ surfaces' = Append(surfaces, Surface(d, surfaces[s].step_x, surfaces[s].step_y))
            /\ returned' = Len(surfaces) + 1
    /\ UNCHANGED <<afVars, gwVars, extVars>>

GaussianFilter_apply(f, s, inplace, via) ==
    Deliver(f, via, s, inplace, GaussianFilter_data(f, surfaces[s]))

BandpassFilter_apply(f, s, inplace, via) ==
    Deliver(f, via, s, inplace, BandpassFilter_data(f, surfaces[s]))

MedianFilter_apply(f, s, inplace, via) ==
    Deliver(f, via, s, inplace, MedianFilter_data(f, surfaces[s]))

ApplyGaussian ==
    \E f \in GaussianFilters, s \in DOMAIN surfaces, inplace \in BOOLEAN :
        GaussianFilter_apply(f, s, inplace, "apply")

\* GaussianFilter.__call__: return self.apply(surface, inplace=inplace)
CallGaussian ==
    \E f \in GaussianFilters, s \in DOMAIN surfaces, inplace \in BOOLEAN :
        GaussianFilter_apply(f, s, inplace, "__call__")

ApplyBandpass ==
    \E f \in BandpassFilters, s \in DOMAIN surfaces, inplace \in BOOLEAN :
        BandpassFilter_apply(f, s, inplace, "apply")

\* BandpassFilter.__call__: return self.apply(surface, inplace=inplace)
CallBandpass ==
    \E f \in BandpassFilters, s \in DOMAIN surfaces, inplace \in BOOLEAN :
        BandpassFilter_apply(f, s, inplace, "__call__")

ApplyMedian ==
    \E f \in MedianFilters, s \in DOMAIN surfaces, inplace \in BOOLEAN :
        MedianFilter_apply(f, s, inplace, "apply")

\* MedianFilter.__call__: return self.apply(surface, inplace=inplace)
CallMedian ==
    \E f \in MedianFilters, s \in DOMAIN surfaces, inplace \in BOOLEAN :
        MedianFilter_apply(f, s, inplace, "__call__")

\* no curve is under construction
AfIdle ==
    /\ data = <<>>
    /\ nbins = 0
    /\ pc = "idle"
    /\ height = <<>>
    /\ material_ratio = <<>>
    /\ slope = Unset
    /\ intercept = Unset
    /\ y_upper = Unset
    /\ y_lower = Unset
    /\ last = NoCall
    /\ cache = NoMemo
    /\ evals = NoMemo
    /\ hits = NoMemo

\* one Surface and a caller that applies one filter to it
InitFilter ==
    /\ AfIdle
    /\ surfaces \in {<<Surface(d, sx, sy)>> : d \in SurfaceMaps, sx \in Steps, sy \in Steps}
    /\ returned = 0
    /\ call = NoFilterCall
    /\ calls_left = 1
    /\ GwIdle
    /\ ExtIdle

NextFilter ==
    \/ ApplyGaussian
    \/ CallGaussian
    \/ ApplyBandpass
    \/ CallBandpass
    \/ ApplyMedian
    \/ CallMedian

SpecFilter ==
    InitFilter /\ [][NextFilter]_vars

(***************************************************************************)
(* BandpassFilter: construction, then a call of the constructed filter.    *)
(***************************************************************************)
\* the comparison of the two cutoffs with > in place of >=
bandpass_invalid_allowing_equal(low_cutoff, high_cutoff) ==
    \/ FLe(low_cutoff, Int2F(0))
    \/ FLe(high_cutoff, Int2F(0))
    \/ FGt(low_cutoff, high_cutoff)

\* BandpassFilter.__init__: the arguments for which it raises ValueError
bandpass_invalid(low_cutoff, high_cutoff) ==
    \/ FLe(low_cutoff, Int2F(0))
    \/ FLe(high_cutoff, Int2F(0))
    \/ FGe(low_cutoff, high_cutoff)

\* cutoffs a caller passes: negative, zero, positive, infinite and NaN
Cutoffs ==
    {Int2F(0 - 1), Int2F(0), Int2F(1), Int2F(4), PInf, NaN}

InitBandpass ==
    /\ AfIdle
    /\ GwIdle
    /\ acf = Idle
    /\ profile = Idle
    /\ image = Idle
    /\ surfaces \in {<<Surface(d, Int2F(1), Int2F(1))>> : d \in SurfaceMaps}
    /\ returned = 0
    /\ call = NoFilterCall
    /\ calls_left = 1
    /\ bandpass \in [pc : {"new"}, args : [low_cutoff : Cutoffs, high_cutoff : Cutoffs],
                     low_cutoff : {Unset}, high_cutoff : {Unset}]

\* BandpassFilter.__init__ with arguments that pass both tests
BandpassInit ==
    /\ bandpass.pc = "new"
    /\ ~bandpass_invalid(bandpass.args.low_cutoff, bandpass.args.high_cutoff)
    /\ bandpass' = [bandpass EXCEPT !.pc = "built",
                                    !.low_cutoff = bandpass.args.low_cutoff,
                                    !.high_cutoff = bandpass.args.high_cutoff]
    /\ UNCHANGED <<afVars, flVars, gwVars, acf, profile, image, calls_left>>

\* BandpassFilter.__init__ raising ValueError: no field is assigned
BandpassInitRaises ==
    /\ bandpass.pc = "new"
    /\ bandpass_invalid(bandpass.args.low_cutoff, bandpass.args.high_cutoff)
    /\ bandpass' = [bandpass EXCEPT !.pc = "raised"]
    /\ UNCHANGED <<afVars, flVars, gwVars, acf, profile, image, calls_left>>

\* apply of the constructed filter: it reads the two cutoffs
ApplyBuiltBandpass ==
    /\ bandpass.pc = "built"
    /\ \E s \in DOMAIN surfaces, inplace \in BOOLEAN :
           BandpassFilter_apply([class |-> "BandpassFilter",
                                 low_cutoff |-> bandpass.low_cutoff,
                                 high_cutoff |-> bandpass.high_cutoff,
                                 endeffect_mode |-> "reflect"], s, inplace, "apply")

NextBandpass ==
    \/ BandpassInit
    \/ BandpassInitRaises
    \/ ApplyBuiltBandpass

SpecBandpass ==
    InitBandpass /\ [][NextBandpass]_vars

(***************************************************************************)
(* GreenwoodWilliamsonModel (greenwood_williamson.py): construction.       *)
(* The height map is a pair of samples, for which np.std is rational.      *)
(***************************************************************************)
\* Python's None as an argument value
None ==
    [k |-> "none", n |-> 0, d |-> 1]

\* bool(v): None and 0 are false, every other number is true
truthy(v) ==
    /\ v # None
    /\ ~(v.k = "fin" /\ v.n = 0)

\* np.std(d) of two samples: half their distance
np_std(d) ==
    FDiv(FAbs(FSub(d[1], d[2])), Int2F(2))

\* np.mean(d) of two samples
np_mean(d) ==
    FDiv(FAdd(d[1], d[2]), Int2F(2))

\* GreenwoodWilliamsonModel._estimate_asperity_density on an instance with
\* the attributes attrs: reading an attribute that is not assigned raises
\* AttributeError
estimate_asperity_density(attrs) ==
    IF {"height_std", "asperity_radius"} \subseteq DOMAIN attrs
    THEN [raised |-> FALSE,
          val    |-> FMul(FDiv(attrs["height_std"], attrs["asperity_radius"]), Fin(1, 10))]
    ELSE [raised |-> TRUE, val |-> Unset]

\* GreenwoodWilliamsonModel.__init__, statement by statement: the attributes
\* assigned, and whether the statement of asperity_density raised
gw_init(surface, asperity_radius, asperity_density) ==
    LET a1      == ("surface" :> surface) @@ ("asperity_radius" :> asperity_radius)
        density == IF truthy(asperity_density)
                   THEN [raised |-> FALSE, val |-> asperity_density]
                   ELSE estimate_asperity_density(a1)
        a2      == a1 @@ ("asperity_density" :> density.val)
        a3      == a2 @@ ("height_std" :> np_std(surface))
        a4      == a3 @@ ("mean_height" :> np_mean(surface))
    IN  IF density.raised
        THEN [raised |-> TRUE, attrs |-> a1]
        ELSE [raised |-> FALSE, attrs |-> a4]

\* the surfaces, radii and densities a caller passes: flat and non-flat
\* pairs of samples; the radii of the tests; no density, zero, and positive
\* and negative densities
GwSurfaces ==
    [1..2 -> {Int2F(h) : h \in 0..MaxHeight}]

GwRadii ==
    {Fin(1, 2), Int2F(1)}

GwDensities ==
    {None, Int2F(0), Int2F(50), Fin(1, 2), Int2F(0 - 1)}

InitGW ==
    /\ AfIdle
    /\ FlIdle
    /\ calls_left = 1
    /\ gw_pc = "new"
    /\ gw_args \in [surface : GwSurfaces, asperity_radius : GwRadii,
                    asperity_density : GwDensities]
    /\ gw_attrs = <<>>
    /\ gw_last = NoCall
    /\ ExtIdle

\* __init__ runs to its end
GwConstruct ==
    /\ gw_pc = "new"
    /\ LET r == gw_init(gw_args.surface, gw_args.asperity_radius, gw_args.asperity_density)
       IN  /\ ~r.raised
           /\ gw_attrs' = r.attrs
    /\ gw_pc' = "built"
    /\ UNCHANGED <<afVars, flVars, extVars, calls_left, gw_args, gw_last>>

\* __init__ is left by the AttributeError of _estimate_asperity_density
GwConstructRaises ==
    /\ gw_pc = "new"
    /\ LET r == gw_init(gw_args.surface, gw_args.asperity_radius, gw_args.asperity_density)
       IN  /\ r.raised
           /\ gw_attrs' = r.attrs
    /\ gw_pc' = "raised"
    /\ UNCHANGED <<afVars, flVars, extVars, calls_left, gw_args, gw_last>>

\* scipy.stats.norm(loc, scale).cdf(x): NaN unless scale > 0, and for a NaN
\* argument; otherwise 0 at -inf, 1 at +inf and a value of [0, 1] that grows
\* with x and is 1/2 at loc, here 1/2 + z / (2 (1 + |z|))
norm_cdf(x, loc, scale) ==
    IF ~FGt(scale, Int2F(0)) \/ IsNaN(x) \/ IsNaN(loc) THEN NaN
    ELSE IF x = NInf THEN Int2F(0)
    ELSE IF x = PInf THEN Int2F(1)
    ELSE LET z == FDiv(FSub(x, loc), scale)
         IN  FAdd(Fin(1, 2), FDiv(z, FMul(Int2F(2), FAdd(Int2F(1), FAbs(z)))))

\* np.pi, to two decimals
np_pi ==
    Fin(22, 7)

\* GreenwoodWilliamsonModel.contact_probability
contact_probability(attrs, pressure) ==
    LET contact_height == FMul(pressure, attrs["asperity_radius"])
    IN  norm_cdf(contact_height, attrs["mean_height"], attrs["height_std"])

\* GreenwoodWilliamsonModel.contact_area_per_asperity
contact_area_per_asperity(attrs, pressure) ==
    LET contact_height == FMul(pressure, attrs["asperity_radius"])
    IN  IF FLe(pressure, Int2F(0)) THEN Int2F(0)
        ELSE IF FLe(contact_height, Int2F(0)) THEN Int2F(0)
        ELSE FMul(FMul(FMul(Int2F(2), np_pi), attrs["asperity_radius"]), contact_height)

\* GreenwoodWilliamsonModel.contact_area
contact_area(attrs, pressure) ==
    LET P == contact_probability(attrs, pressure)
        A == contact_area_per_asperity(attrs, pressure)
    IN  FMul(FMul(attrs["asperity_density"], P), A)

\* GreenwoodWilliamsonModel.total_load
total_load(attrs, pressure) ==
    FMul(contact_area(attrs, pressure), pressure)

\* the pressures a caller passes
Pressures ==
    {NInf, Int2F(0 - 1), Int2F(0), Int2F(10)}

\* a method of the constructed model returns val; it assigns no attribute
GwReturn(op, arg, val) ==
    /\ gw_pc = "built"
    /\ calls_left > 0
    /\ calls_left' = calls_left - 1
    /\ gw_last' = [op |-> op, arg |-> arg, val |-> val]
    /\ UNCHANGED <<afVars, flVars, extVars, gw_pc, gw_args, gw_attrs>>

CallContactAreaPerAsperity ==
    \E p \in Pressures :
        GwReturn("contact_area_per_asperity", p, contact_area_per_asperity(gw_attrs, p))

CallContactArea ==
    \E p \in Pressures : GwReturn("contact_area", p, contact_area(gw_attrs, p))

CallTotalLoad ==
    \E p \in Pressures : GwReturn("total_load", p, total_load(gw_attrs, p))

NextGW ==
    \/ GwConstruct
    \/ GwConstructRaises
    \/ CallContactAreaPerAsperity
    \/ CallContactArea
    \/ CallTotalLoad

SpecGW ==
    InitGW /\ [][NextGW]_vars

(***************************************************************************)
(* AutocorrelationFunction (autocorrelation.py) of a 2 x 2 surface.        *)
(* The helpers of the interpolation (argmin_all, argmax_all,               *)
(* interpolate_line_on_2d_array) are not part of the sources: what         *)
(* _calculate_decay_lengths gives when there is an edge is any outcome.    *)
(***************************************************************************)
\* Surface.center: the data minus their mean
center(d) ==
    LET mean == FDiv(FAdd(FAdd(d[1][1], d[1][2]), FAdd(d[2][1], d[2][2])), Int2F(4))
    IN  [r \in 1..2 |-> [c \in 1..2 |-> FSub(d[r][c], mean)]]

\* AutocorrelationFunction.calculate_autocorrelation; the transform of a
\* 2 x 2 map is real, so it is its own conjugate
calculate_autocorrelation(d) ==
    LET data_fft == fft2(d)
        product  == [u \in 1..2 |-> [v \in 1..2 |-> FMul(data_fft[u][v], data_fft[u][v])]]
        acf_     == ifft2(product)
    IN  fftshift([u \in 1..2 |-> [v \in 1..2 |-> FDiv(acf_[u][v], Int2F(4))]])

\* _calculate_decay_lengths up to the edge: the pixels next to the region of
\* the centre pixel (ndimage.label and binary_dilation with the cross of
\* the four neighbours); the centre of a 2 x 2 map is its last pixel
decay_edge(acf_data, threshold_fraction) ==
    LET Pixels    == (1..2) \X (1..2)
        centre    == <<2, 2>>
        max       == CHOOSE m \in {acf_data[p[1]][p[2]] : p \in Pixels} :
                         \A p \in Pixels : ~FGt(acf_data[p[1]][p[2]], m)
        threshold == FMul(threshold_fraction, max)
        mask      == {p \in Pixels : FGt(acf_data[p[1]][p[2]], threshold)}
        next(p, q) == (IF p[1] > q[1] THEN p[1] - q[1] ELSE q[1] - p[1])
                      + (IF p[2] > q[2] THEN p[2] - q[2] ELSE q[2] - p[2]) = 1
        grow(S)   == S \cup {q \in mask : \E p \in S : next(p, q)}
        region    == IF centre \in mask
                     THEN grow(grow(grow({centre})))
                     ELSE Pixels \ mask
        dilation  == region \cup {q \in Pixels : \E p \in region : next(p, q)}
    IN  dilation \ region

\* what the interpolation of the two decay lengths can give: an exception,
\* or a pair of lengths
Lengths ==
    {Int2F(0), Int2F(1), Int2F(2)}

DecayOutcomes ==
    {[raised |-> TRUE, val |-> <<Unset, Unset>>]}
        \cup {[raised |-> FALSE, val |-> <<a, b>>] : a \in Lengths, b \in Lengths}

\* AutocorrelationFunction._calculate_decay_lengths, o the outcome of the
\* interpolation
calculate_decay_lengths(acf_data, threshold_fraction, o) ==
    IF decay_edge(acf_data, threshold_fraction) = {}
    THEN [raised |-> FALSE, val |-> <<Int2F(0), Int2F(0)>>]
    ELSE o

\* AutocorrelationFunction.Sal
Sal(acf_data, s, o) ==
    LET r == calculate_decay_lengths(acf_data, s, o)
    IN  [raised |-> r.raised, val |-> r.val[1]]

\* Str dividing without looking at the longest decay length
Str_dividing(acf_data, s, o) ==
    LET r == calculate_decay_lengths(acf_data, s, o)
    IN  [raised |-> r.raised,
         val    |-> IF r.raised THEN Unset ELSE FDiv(r.val[1], r.val[2])]

\* AutocorrelationFunction.Str
Str(acf_data, s, o) ==
    LET r == calculate_decay_lengths(acf_data, s, o)
    IN  [raised |-> r.raised,
         val    |-> IF r.raised THEN Unset
                    ELSE IF r.val[2] # Int2F(0) THEN FDiv(r.val[1], r.val[2])
                    ELSE Int2F(0)]

\* thresholds a caller passes: the default 0.2, and values at and outside
\* the ends of [0, 1]
Thresholds ==
    {Int2F(0 - 1), Int2F(0), Fin(1, 5), Int2F(1), Int2F(2)}

InitACF ==
    /\ AfIdle
    /\ FlIdle
    /\ GwIdle
    /\ bandpass = Idle
    /\ profile = Idle
    /\ image = Idle
    /\ calls_left = 1
    /\ acf \in [pc : {"new"}, surface : SurfaceMaps, data : {<<>>}, last : {NoCall},
                lengths : {<<>>}]

\* AutocorrelationFunction.__init__
AcfConstruct ==
    /\ acf.pc = "new"
    /\ acf' = [acf EXCEPT !.pc = "built",
                          !.surface = center(acf.surface),
                          !.data = calculate_autocorrelation(center(acf.surface))]
    /\ UNCHANGED <<afVars, flVars, gwVars, bandpass, profile, image, calls_left>>

\* a query of the constructed object returns r.val or raises; lengths keeps
\* the pair that _calculate_decay_lengths gave
AcfReturn(op, s, o, r) ==
    /\ acf.pc = "built"
    /\ calls_left > 0
    /\ calls_left' = calls_left - 1
    /\ acf' = [acf EXCEPT !.last = [op |-> op, arg |-> s, val |-> r.val],
                          !.pc = IF r.raised THEN "raised" ELSE "built",
                          !.lengths = calculate_decay_lengths(acf.data, s, o).val]
    /\ UNCHANGED <<afVars, flVars, gwVars, bandpass, profile, image>>

CallSal ==
    \E s \in Thresholds, o \in DecayOutcomes : AcfReturn("Sal", s, o, Sal(acf.data, s, o))

CallStr ==
    \E s \in Thresholds, o \in DecayOutcomes : AcfReturn("Str", s, o, Str(acf.data, s, o))

NextACF ==
    \/ AcfConstruct
    \/ CallSal
    \/ CallStr

SpecACF ==
    InitACF /\ [][NextACF]_vars

(***************************************************************************)
(* Profile (profile.py).  The module is compiled when it is imported; the  *)
(* tokenizer accepts a line that is indented less than the line before it  *)
(* only at a column that is still open.                                    *)
(***************************************************************************)
MaxWindow == 6

\* the indentation columns open at the end of calculate_material_ratio:
\* module, class body, method body
OpenIndents ==
    <<0, 4, 8>>

\* the column of `def plot_radar`
PlotRadarIndent == 5

\* the tokenizer's rule for a dedent to column col
dedent_matches(stack, col) ==
    \E i \in DOMAIN stack : stack[i] = col

\* import of surfalize.profile: the file compiles
profile_compiles ==
    dedent_matches(OpenIndents, PlotRadarIndent)

\* Profile.__init__: the window length given to savgol_filter
savgol_window(sg_window, n) ==
    LET odd == IF sg_window % 2 = 0 THEN sg_window + 1 ELSE sg_window
    IN  IF odd > n
        THEN IF n % 2 # 0 THEN n ELSE n - 1
        ELSE odd

\* what a caller is about to do with the class
ProfileRequests ==
    [op : {"__init__"}, data : HeightMaps, preprocess : BOOLEAN, sg_window : 1..MaxWindow,
     filter_obj : {"none"}, inplace : {FALSE}]
        \cup [op : {"period", "to_dict"}, data : HeightMaps, preprocess : {FALSE},
              sg_window : {9}, filter_obj : {"none"}, inplace : {FALSE}]
        \cup [op : {"apply_filter"}, data : HeightMaps, preprocess : {FALSE}, sg_window : {9},
              filter_obj : {"GaussianFilter", "function", "number"}, inplace : BOOLEAN]

InitProfile ==
    /\ AfIdle
    /\ FlIdle
    /\ GwIdle
    /\ bandpass = Idle
    /\ acf = Idle
    /\ image = Idle
    /\ calls_left = 1
    /\ profile \in [pc : {"new"}, request : ProfileRequests, exc : {"none"}, window : {0},
                    returned : {"nothing"}]

\* `from surfalize import Profile` raises IndentationError: no statement of
\* the class runs, no window is passed and nothing is returned
ImportProfileRaises ==
    /\ profile.pc = "new"
    /\ ~profile_compiles
    /\ profile' = [profile EXCEPT !.pc = "raised", !.exc = "IndentationError"]
    /\ calls_left' = calls_left - 1
    /\ UNCHANGED <<afVars, flVars, gwVars, bandpass, acf, image>>

NextProfile ==
    ImportProfileRaises

SpecProfile ==
    InitProfile /\ [][NextProfile]_vars

(***************************************************************************)
(* Image (image.py): an image of two pixels with one or three channels.    *)
(* The annotation of save names Path, which the module does not import:    *)
(* an interpreter that evaluates annotations when the class body runs      *)
(* raises NameError at import, one that defers them (3.14) does not.       *)
(***************************************************************************)
\* pixel values of the two integer dtypes
PixelValues(dtype) ==
    IF dtype = "uint8" THEN {10, 255} ELSE {10, 300}

Images ==
    UNION {[dtype : {t}, data : [1..2 -> [1..c -> PixelValues(t)]]] :
               t \in {"uint8", "uint16"}, c \in {1, 3}}

\* the contrast factors a caller passes
Factors ==
    {Int2F(0 - 1), Int2F(0), Fin(1, 2), Int2F(1), Int2F(2)}

\* Image.mode
image_mode(d) ==
    IF Len(d[1]) = 1 THEN "L" ELSE IF Len(d[1]) = 3 THEN "RGB" ELSE "RGBA"

\* np.mean(self._data) for mode L, np.mean(self._data, axis=(0, 1)) for the
\* other modes: the mean that belongs to channel c
channel_mean(d, c) ==
    IF image_mode(d) = "L"
    THEN FDiv(Int2F(d[1][1] + d[2][1]), Int2F(2))
    ELSE FDiv(Int2F(d[1][c] + d[2][c]), Int2F(2))

\* np.clip(x, 0, 255).astype(dtype): the integer part of the clipped value
clip_astype(x) ==
    IF FLt(x, Int2F(0)) THEN 0
    ELSE IF FGt(x, Int2F(255)) THEN 255
    ELSE x.n \div x.d

\* Image.adjust_contrast for factor >= 0: the data of the returned image
adjusted_data(d, factor) ==
    [p \in 1..2 |-> [c \in DOMAIN d[p] |->
        LET mean == channel_mean(d, c)
        IN  clip_astype(FAdd(mean, FMul(factor, FSub(Int2F(d[p][c]), mean))))]]

InitImage ==
    /\ AfIdle
    /\ FlIdle
    /\ GwIdle
    /\ bandpass = Idle
    /\ acf = Idle
    /\ profile = Idle
    /\ calls_left = 1
    /\ \E i \in Images :
           image = [pc |-> "new", dtype |-> i.dtype, data |-> i.data, exc |-> "none",
                    last |-> NoCall, result |-> <<>>]

\* import of surfalize.image where annotations are evaluated with the class
\* body
ImportImageRaises ==
    /\ image.pc = "new"
    /\ image' = [image EXCEPT !.pc = "raised", !.exc = "NameError"]
    /\ UNCHANGED <<afVars, flVars, gwVars, bandpass, acf, profile, calls_left>>

\* import where annotations are deferred, then Image(data) of an integer
\* array with one or three channels: the data are kept as they are
ImageConstruct ==
    /\ image.pc = "new"
    /\ image' = [image EXCEPT !.pc = "built"]
    /\ UNCHANGED <<afVars, flVars, gwVars, bandpass, acf, profile, calls_left>>

\* adjust_contrast(factor) with factor < 0
AdjustContrastRaises ==
    /\ image.pc = "built"
    /\ calls_left > 0
    /\ \E factor \in Factors :
           /\ FLt(factor, Int2F(0))
           /\ image' = [image EXCEPT !.exc = "ValueError",
                                     !.last = [op |-> "adjust_contrast", arg |-> factor,
                                               val |-> Unset]]
    /\ calls_left' = calls_left - 1
    /\ UNCHANGED <<afVars, flVars, gwVars, bandpass, acf, profile>>

\* adjust_contrast(factor) returning a new Image; self._data is not assigned
AdjustContrast ==
    /\ image.pc = "built"
    /\ calls_left > 0
    /\ \E factor \in Factors :
           /\ ~FLt(factor, Int2F(0))
           /\ image' = [image EXCEPT !.result = adjusted_data(image.data, factor),
                                     !.last = [op |-> "adjust_contrast", arg |-> factor,
                                               val |-> Int2F(0)]]
    /\ calls_left' = calls_left - 1
    /\ UNCHANGED <<afVars, flVars, gwVars, bandpass, acf, profile>>

NextImage ==
    \/ ImportImageRaises
    \/ ImageConstruct
    \/ AdjustContrastRaises
    \/ AdjustContrast

SpecImage ==
    InitImage /\ [][NextImage]_vars

(***************************************************************************)
(* Properties.                                                             *)
(***************************************************************************)
Built ==
    pc = "built"

\* a perfectly flat height map: all samples equal
Flat ==
    SeqMin(data) = SeqMax(data)

Indices ==
    1..Len(material_ratio)

\* C1: after construction material_ratio[0] is 100 and material_ratio is
\* non-decreasing in index order.
C1_MaterialRatioNonDecreasing ==
    Built =>
        /\ FEq(material_ratio[1], Int2F(100))
        /\ \A i \in 1..(Len(material_ratio) - 1) :
              FLe(material_ratio[i], material_ratio[i + 1])

\* C2: for a flat height map Sk() returns 0.0, a finite number.
C2_FlatSkIsZero ==
    (Built /\ Flat /\ last.op = "Sk") => FEq(last.val, Int2F(0))

\* C3: for a flat height map every element of material_ratio is 100.
C3_FlatMaterialRatioAllHundred ==
    (Built /\ Flat) => \A i \in Indices : FEq(material_ratio[i], Int2F(100))

\* C4: after construction height and material_ratio both have nbins + 1
\* elements and share their index set.
C4_CurveLengths ==
    Built =>
        /\ Len(height) = nbins + 1
        /\ Len(material_ratio) = nbins + 1
        /\ DOMAIN height = DOMAIN material_ratio

C4_Witness ==
    Built /\ nbins >= 2 /\ Len(data) >= 2 /\ Len(material_ratio) = nbins + 1

\* C5: for a height map with two distinct values, height descends strictly in
\* index order from the largest sample at index 0 to the smallest at index nbins.
C5_HeightDescending ==
    (Built /\ ~Flat) =>
        /\ FEq(height[1], Int2F(SeqMax(data)))
        /\ FEq(height[nbins + 1], Int2F(SeqMin(data)))
        /\ \A i \in 1..nbins : FGt(height[i], height[i + 1])

C5_Witness ==
    Built /\ ~Flat /\ nbins >= 2 /\ FGt(height[1], height[2]) /\ FGt(height[2], height[3])

\* C7: after construction slope, intercept, y_upper and y_lower are finite:
\* neither the -inf sentinel of the search nor a NaN derived from it.
C7_EquivalenceLineFinite ==
    Built =>
        /\ IsFinite(slope)
        /\ IsFinite(intercept)
        /\ IsFinite(y_upper)
        /\ IsFinite(y_lower)

UniqueRatio(i) ==
    \A j \in Indices : material_ratio[j] = material_ratio[i] => j = i

C9_SpkSvkNonNegative ==
    (Built /\ ~Flat /\ last.op \in {"Spk", "Svk"}) =>
        IsFinite(last.val) /\ FGe(last.val, Int2F(0))

\* C11: constructing a curve with nbins < 1 fails inside __init__ with the
\* ValueError of an invalid configuration: no attribute of the curve has been
\* assigned and the instance never becomes one that answers queries.
C11_InvalidNbinsRaises ==
    (nbins < 1 /\ pc # "new") =>
        /\ pc = "raised"
        /\ last = [op |-> "__init__", arg |-> Unset, val |-> ValueError]
        /\ height = <<>>
        /\ material_ratio = <<>>
        /\ cache = NoMemo

\* __init__ has run with nbins < 1 and has raised
C11_Witness ==
    /\ nbins < 1
    /\ pc = "raised"
    /\ last.val = ValueError

\* the derived parameters, all decorated with @cache
CachedOps ==
    {"Sk", "Smr1", "Smr2", "Spk", "Svk", "Vmp", "Vmc", "Vvv", "Vvc"}

\* C12: the body of a derived parameter runs at most once for each tuple of
\* arguments; a stored value is never replaced, so a call with arguments seen
\* before returns the value of the first call without running the body; a call
\* of Vmp with other arguments returns the value for its own arguments.
C12_BodyRunsOncePerArguments ==
    [][/\ \A k \in DOMAIN evals' : evals'[k] <= 1
       /\ \A k \in DOMAIN cache : k \in DOMAIN cache' /\ cache'[k] = cache[k]
       /\ (pc = "built" /\ last'.op \in CachedOps) =>
            LET k == Key(last'.op, last'.arg)
            IN  /\ k \in DOMAIN cache'
                /\ last'.val = cache'[k]
                /\ k \in DOMAIN cache => (last'.val = cache[k] /\ evals' = evals)
                /\ last'.op = "Vmp" => last'.val = Vmp(last'.arg[1])]_vars

\* Vmp has been called again with the arguments of an earlier call
C12_Witness ==
    /\ last.op = "Vmp"
    /\ Key("Vmp", last.arg) \in DOMAIN hits
    /\ evals[Key("Vmp", last.arg)] = 1
    /\ IsFinite(last.val)
    /\ ~FEq(last.val, Int2F(0))

\* the value of a derived parameter for the curve as it is, nothing cached
Value(op, arg) ==
    CASE op = "Sk"   -> Sk
      [] op = "Smr1" -> Smr1
      [] op = "Smr2" -> Smr2
      [] op = "Spk"  -> Spk
      [] op = "Svk"  -> Svk
      [] op = "Vmp"  -> Vmp(arg[1])
      [] op = "Vmc"  -> Vmc(arg[1], arg[2])
      [] op = "Vvv"  -> Vvv(arg[1])
      [] op = "Vvc"  -> Vvc(arg[1], arg[2])

\* C13: whatever queries were made before and in whatever order, a derived
\* parameter returns the value that its body computes from the curve and its
\* arguments alone, and every value stored in the cache is that value.
C13_OrderIndependent ==
    Built =>
        /\ \A k \in DOMAIN cache : k[1] \in CachedOps => cache[k] = Value(k[1], k[2])
        /\ last.op \in CachedOps => last.val = Value(last.op, last.arg)

\* Vmc has been called with two different p, in either order, and the two
\* values differ
C13_Witness ==
    /\ last.op = "Vmc"
    /\ Key("Vmc", <<Int2F(10), Int2F(80)>>) \in DOMAIN cache
    /\ Key("Vmc", <<Int2F(50), Int2F(80)>>) \in DOMAIN cache
    /\ cache[Key("Vmc", <<Int2F(10), Int2F(80)>>)] # cache[Key("Vmc", <<Int2F(50), Int2F(80)>>)]

\* C14: no query changes height, material_ratio, nbins, slope, intercept,
\* y_upper, y_lower or the data of the surface: every step of a constructed
\* curve leaves them as they are.
C14_QueriesDoNotMutate ==
    [][pc = "built" => UNCHANGED <<height, material_ratio, nbins, slope, intercept,
                                   y_upper, y_lower, data>>]_vars

\* the caller has made all its queries, the last one a volume parameter that
\* calls another one, and the curve is still the one __init__ computed
C14_Witness ==
    /\ Built
    /\ calls_left = 0
    /\ last.op = "Vvc"
    /\ Key("Vvv", <<Int2F(80)>>) \in DOMAIN cache
    /\ height = get_material_ratio_curve(data, nbins).height
    /\ material_ratio = get_material_ratio_curve(data, nbins).material_ratio

\* C15: on a height map with two distinct values, Vmc(p, q) with p <= q (the
\* defaults p = 10, q = 80 among them) returns a number >= 0.
C15_VmcNonNegative ==
    (Built /\ ~Flat /\ last.op = "Vmc" /\ FLe(last.arg[1], last.arg[2])) =>
        FGe(last.val, Int2F(0))

\* C16: on a height map with two distinct values, Vvc(p, q) with p <= q (the
\* defaults p = 10, q = 80 among them) returns a number >= 0.
C16_VvcNonNegative ==
    (Built /\ ~Flat /\ last.op = "Vvc" /\ FLe(last.arg[1], last.arg[2])) =>
        FGe(last.val, Int2F(0))

\* the filtered data of any of the three filters
filter_data(f, surf) ==
    CASE f.class = "GaussianFilter" -> GaussianFilter_data(f, surf)
      [] f.class = "BandpassFilter" -> BandpassFilter_data(f, surf)
      [] f.class = "MedianFilter"   -> MedianFilter_data(f, surf)

mat_add(a, b) ==
    [r \in DOMAIN a |-> [c \in DOMAIN a[r] |-> FAdd(a[r][c], b[r][c])]]

\* C18: the data a highpass GaussianFilter produces are the original data
\* minus the data the lowpass GaussianFilter of the same cutoff and mode
\* produces from them, so lowpass plus highpass gives the original data
\* back, element by element.
C18_HighpassIsComplement ==
    [][(call'.filter.class = "GaussianFilter" /\ call'.filter.filter_type = "highpass") =>
        LET original == surfaces[call'.input].data
            lowpass  == GaussianFilter_data([call'.filter EXCEPT !.filter_type = "lowpass"],
                                            surfaces[call'.input])
            highpass == surfaces'[returned'].data
        IN  /\ highpass = mat_sub(original, lowpass)
            /\ mat_add(lowpass, highpass) = original]_vars

\* a highpass filter was applied and what it returned is neither the
\* original data nor zero everywhere
C18_Witness ==
    /\ call.filter.class = "GaussianFilter"
    /\ call.filter.filter_type = "highpass"
    /\ returned = 2
    /\ surfaces[2].data # surfaces[1].data
    /\ \E r \in 1..2, c \in 1..2 : ~FEq(surfaces[2].data[r][c], Int2F(0))

\* C19: GreenwoodWilliamsonModel(surface, asperity_radius) without an
\* asperity_density completes without error and leaves an asperity_density
\* > 0, estimated from height_std and asperity_radius; the estimate reads no
\* attribute before it is assigned.
C19_EstimateSucceeds ==
    (gw_pc \in {"built", "raised"} /\ gw_args.asperity_density = None) =>
        /\ gw_pc = "built"
        /\ FGt(gw_attrs["asperity_density"], Int2F(0))

\* C20: an asperity_density passed to GreenwoodWilliamsonModel is the value
\* of the attribute asperity_density of the model, for every number passed.
C20_PassedDensityStored ==
    (gw_pc \in {"built", "raised"} /\ gw_args.asperity_density # None) =>
        /\ gw_pc = "built"
        /\ gw_attrs["asperity_density"] = gw_args.asperity_density

\* the indices (from 0) whose window of EQUIVALENCE_LINE_WIDTH fits within 100%
Fitting ==
    {i \in 0..(Len(material_ratio) - 1) :
        FLe(FAdd(material_ratio[i + 1], Int2F(EQUIVALENCE_LINE_WIDTH)), Int2F(100))}

\* the slope of the candidate line that starts at index i (from 0)
candidate_slope(i) ==
    FDiv(FSub(Smc(FAdd(material_ratio[i + 1], Int2F(EQUIVALENCE_LINE_WIDTH))), height[i + 1]),
         Int2F(EQUIVALENCE_LINE_WIDTH))

\* C26: the early stop of the equivalence-line search skips no candidate:
\* every index whose window of 40 fits within 100% has its slope evaluated,
\* so a curve with a point at material ratio <= 60 has a candidate evaluated.
C26_EarlyStopSound ==
    Built => \A i \in Fitting : i \in equivalence_search(material_ratio, height).evaluated

\* C27: the slope of the equivalence line is the largest candidate slope over
\* the indices whose window fits, it belongs to the smallest index that
\* attains it, and intercept, y_upper and y_lower follow from that index.
C27_SlopeIsMaximum ==
    (Built /\ Fitting # {}) =>
        \E i \in Fitting :
            /\ \A j \in Fitting : FLe(candidate_slope(j), candidate_slope(i))
            /\ \A j \in Fitting : j < i => FLt(candidate_slope(j), candidate_slope(i))
            /\ slope = candidate_slope(i)
            /\ intercept = FSub(height[i + 1], FMul(slope, material_ratio[i + 1]))
            /\ y_upper = intercept
            /\ y_lower = FAdd(FMul(slope, Int2F(100)), intercept)

\* C29: GaussianFilter.apply smooths the y axis (down the rows) with
\* sigma(cutoff / step_y) and the x axis (along the columns) with
\* sigma(cutoff / step_x): the data a lowpass filter returns are those of
\* gaussian_filter with that pair of sigmas.
C29_PerAxisSigma ==
    (call.filter.class = "GaussianFilter" /\ call.filter.filter_type = "lowpass"
        /\ ~call.inplace) =>
        LET surf    == surfaces[call.input]
            sigma_x == sigma(FDiv(call.filter.cutoff, surf.step_x))
            sigma_y == sigma(FDiv(call.filter.cutoff, surf.step_y))
        IN  surfaces[returned].data
                = gaussian_filter(surf.data, <<sigma_y, sigma_x>>, call.filter.endeffect_mode)

\* the construction of the BandpassFilter has ended
BandpassDone ==
    bandpass.pc \in {"built", "raised"}

\* what C28 says of a constructed or refused filter
BandpassContract ==
    LET low  == bandpass.args.low_cutoff
        high == bandpass.args.high_cutoff
    IN  /\ bandpass.pc = "raised" <=>
               (FLe(low, Int2F(0)) \/ FLe(high, Int2F(0)) \/ FGe(low, high))
        /\ bandpass.pc = "built" =>
               /\ bandpass.low_cutoff = low
               /\ bandpass.high_cutoff = high
               /\ FLt(Int2F(0), bandpass.low_cutoff)
               /\ FLt(bandpass.low_cutoff, bandpass.high_cutoff)

\* C28: BandpassFilter(low_cutoff, high_cutoff) raises ValueError exactly
\* when low_cutoff <= 0, high_cutoff <= 0 or low_cutoff >= high_cutoff; a
\* constructed filter has 0 < low_cutoff < high_cutoff, before and after it
\* is applied.
C28_ValidatedCutoffs ==
    BandpassDone => BandpassContract

\* C28, for cutoffs that are numbers: BandpassFilter(low_cutoff, high_cutoff)
\* raises ValueError exactly when low_cutoff <= 0, high_cutoff <= 0 or
\* low_cutoff >= high_cutoff, and a filter constructed from two cutoffs that
\* are not NaN has 0 < low_cutoff < high_cutoff, before and after it is
\* applied.
C28_ValidatedNumberCutoffs ==
    (BandpassDone /\ ~IsNaN(bandpass.args.low_cutoff) /\ ~IsNaN(bandpass.args.high_cutoff))
        => BandpassContract

\* a filter constructed from two numbers has been applied and has changed
\* the data
C28_Witness ==
    /\ bandpass.pc = "built"
    /\ ~IsNaN(bandpass.low_cutoff)
    /\ ~IsNaN(bandpass.high_cutoff)
    /\ call.filter.class = "BandpassFilter"
    /\ returned = 2
    /\ surfaces[2].data # surfaces[1].data

\* C21: for every pressure <= 0, contact_area_per_asperity(pressure) and
\* contact_area(pressure) return 0, and total_load(0) returns 0.
C21_NoPressureNoContact ==
    /\ (gw_last.op \in {"contact_area_per_asperity", "contact_area"} /\ FLe(gw_last.arg, Int2F(0)))
           => gw_last.val = Int2F(0)
    /\ (gw_last.op = "total_load" /\ gw_last.arg = Int2F(0)) => gw_last.val = Int2F(0)

\* The same on a model whose surface is not flat.
NoPressureNoContactOnRoughSurface ==
    (gw_pc = "built" /\ gw_attrs["height_std"] # Int2F(0)) => C21_NoPressureNoContact

\* contact_area_per_asperity alone returns 0 for every pressure <= 0
PerAsperityAreaIsZero ==
    (gw_last.op = "contact_area_per_asperity" /\ FLe(gw_last.arg, Int2F(0)))
        => gw_last.val = Int2F(0)

\* the surface given to AutocorrelationFunction was flat
AcfFlat ==
    \A r \in 1..2, c \in 1..2 : acf.surface[r][c] = Int2F(0)

\* C22: on a flat surface Sal(s) = 0 and Str(s) = 0 for every threshold s,
\* and on every surface Str(s) returns 0 whenever the longest decay length
\* is 0.
C22_FlatAndZeroLength ==
    (acf.pc # "idle" /\ acf.last.op \in {"Sal", "Str"}) =>
        /\ AcfFlat => (acf.pc = "built" /\ acf.last.val = Int2F(0))
        /\ (acf.last.op = "Str" /\ acf.pc = "built" /\ acf.lengths[2] = Int2F(0))
               => acf.last.val = Int2F(0)

\* Str has returned on a flat surface
C22_Witness ==
    /\ acf.pc = "built"
    /\ AcfFlat
    /\ acf.last.op = "Str"
    /\ acf.last.arg = Fin(1, 5)

\* Str has returned on a surface with an edge whose longest decay length is 0
StrOfZeroLengthOnRoughSurface ==
    /\ acf.pc = "built"
    /\ ~AcfFlat
    /\ acf.last.op = "Str"
    /\ decay_edge(acf.data, acf.last.arg) # {}
    /\ acf.lengths[2] = Int2F(0)

\* the caller's statement has ended, by a return or by an exception
ProfileDone ==
    profile.pc \in {"returned", "raised"}

\* all heights of the requested profile are equal
ProfileFlat ==
    \A i \in DOMAIN profile.request.data : profile.request.data[i] = profile.request.data[1]

\* C23: period() on a flat profile raises ValueError and returns no value,
\* and so does to_dict().
C23_FlatPeriodRaisesValueError ==
    (ProfileDone /\ profile.request.op \in {"period", "to_dict"} /\ ProfileFlat)
        => (profile.exc = "ValueError" /\ profile.returned = "nothing")

\* C24: apply_filter with an object that has apply returns a new Profile
\* when inplace is False and None when it is True; with an object that has
\* no apply and is not callable it raises TypeError.
C24_ApplyFilterContract ==
    (ProfileDone /\ profile.request.op = "apply_filter") =>
        /\ (profile.request.filter_obj = "GaussianFilter" /\ ~profile.request.inplace)
               => profile.returned = "Profile"
        /\ (profile.request.filter_obj = "GaussianFilter" /\ profile.request.inplace)
               => profile.returned = "None"
        /\ profile.request.filter_obj = "number" => profile.exc = "TypeError"

\* C30: with preprocess=True, sg_window >= 1 and n >= 1 samples, the window
\* length passed to savgol_filter is odd, positive and at most n.
C30_WindowOddAndFits ==
    (ProfileDone /\ profile.request.op = "__init__" /\ profile.request.preprocess) =>
        /\ profile.window % 2 = 1
        /\ profile.window >= 1
        /\ profile.window <= Len(profile.request.data)

\* The statements of lines 47 to 50 compute an odd positive window of at
\* most n samples for every requested window and every n >= 1.
WindowRuleIsSound ==
    LET w == savgol_window(profile.request.sg_window, Len(profile.request.data))
    IN  profile.pc # "idle" => (w % 2 = 1 /\ w >= 1 /\ w <= Len(profile.request.data))

\* what C25 says of a call of adjust_contrast that has ended
ContrastContract ==
    /\ image.last.arg = Int2F(1) => (image.exc = "none" /\ image.result = image.data)
    /\ FLt(image.last.arg, Int2F(0)) => image.exc = "ValueError"

\* C25: adjust_contrast(1.0) returns an image with the pixel data of the
\* original, for uint8 and uint16 data in every mode, and
\* adjust_contrast(factor) raises ValueError for every factor < 0.
C25_ContrastOneIsIdentity ==
    (image.pc # "idle" /\ image.last.op = "adjust_contrast") => ContrastContract

\* The same for uint8 data alone.
ContrastContractOfUint8 ==
    (image.pc # "idle" /\ image.last.op = "adjust_contrast" /\ image.dtype = "uint8")
        => ContrastContract

\* adjust_contrast(1.0) has returned on a uint8 image with three channels
ContrastOneOnUint8Reached ==
    /\ image.pc = "built"
    /\ image.last.arg = Int2F(1)
    /\ image.dtype = "uint8"
    /\ image_mode(image.data) = "RGB"
    /\ image.result = image.data

(***************************************************************************)
(* Facts about the search that explain the results above. They hold in     *)
(* every reachable state: material_ratio[0] is 100 > 100 - 40, so the loop *)
(* stops at its first index.                                               *)
(***************************************************************************)
\* the equivalence-line search computes no candidate slope at all
SearchEvaluatesNothing ==
    Built => equivalence_search(material_ratio, height).evaluated = {}

\* y_upper is +inf and y_lower is NaN, so Smr1() is 100 and Smr2() is NaN:
\* neither divisor of Spk and Svk is ever zero
DivisorsNeverZero ==
    Built =>
        /\ y_upper = PInf
        /\ IsNaN(y_lower)
        /\ FEq(Smr1, Int2F(100))
        /\ IsNaN(Smr2)

====
